---------------------------- MODULE Spec2Model ----------------------------
(***************************************************************************)
(* Model of ocm-sbom's converter package:                                  *)
(*   - the Document Merger   (CycloneDXMerge / HierarchicalMerge and the   *)
(*     namespacing helpers, src/README.md lines 42-617), and               *)
(*   - the Graph Orchestrator (processAllComponents and ConvertOCMToSBOM,  *)
(*     src/converter/convert_impl.go lines 17-218).                        *)
(*                                                                         *)
(* Go strings are modelled as sequences of one-character strings so that   *)
(* fmt.Sprintf, strings.SplitN and strings.Replace are computed on the     *)
(* characters and not assumed injective.  A Go nil pointer to a slice is   *)
(* the record NilList; a non-nil pointer is List(s).                       *)
(***************************************************************************)
EXTENDS Integers, Sequences, FiniteSets, TLC

VARIABLES
    \* ---- processAllComponents (convert_impl.go:45-218)
    pc,                 \* position of the control flow
    queue,              \* BFS queue of compKey
    visited,            \* set of node ids with visited[id] = true
    childrenOf,         \* node id -> sequence of child ids
    parentsOf,          \* node id -> set of parent ids
    resourceSBOMPath,   \* node id -> path of the node's leaf document
    resultPath,         \* node id -> path of the node's merged document
    remainingChildren,  \* node id -> children still to be processed
    allNodes,           \* set of node ids whose descriptor was fetched
    processed,          \* set of node ids with processed[id] = true
    batch,              \* rest of the ready batch being drained
    next,               \* ready batch of the following wave
    files,              \* the temp directory: path -> document
    returned,           \* the slice returned by processAllComponents
    failedFetch,        \* ids whose GetComponentVersion returned an error
    processLog,         \* one entry per node processed in phase 2
    fetchCalls,         \* compKey -> number of GetComponentVersion calls
    leafCalls,          \* compKey -> number of ProcessComponent calls
    \* ---- ConvertOCMToSBOM (convert_impl.go:17-39, 271-309)
    targetFormat,       \* the requested SBOMFormat
    convertCalls,       \* number of runs of the convert command
    sbom,               \* the bytes returned by ConvertOCMToSBOM
    sbomErr,            \* the error returned by ConvertOCMToSBOM
    \* ---- CycloneDXMerge / HierarchicalMerge (README.md:64-367)
    options,            \* CycloneDxMergeOptions of the call
    boms,               \* the input documents (rewritten in place)
    idx,                \* number of input documents the loop has visited
    result,             \* the document under construction
    bomSubjectDependencies, \* refs of the documents' root components
    outBom,             \* the returned document
    outErr              \* the returned error

orchVars == <<queue, visited, childrenOf, parentsOf, resourceSBOMPath,
              resultPath, remainingChildren, allNodes, processed, batch,
              next, files, returned, failedFetch, processLog, fetchCalls,
              leafCalls, targetFormat, convertCalls, sbom, sbomErr>>
convVars == <<targetFormat, convertCalls, sbom, sbomErr>>
mergeVars == <<options, boms, idx, result, bomSubjectDependencies, outBom,
               outErr>>
vars == <<pc, orchVars, mergeVars>>

-----------------------------------------------------------------------------
(* Strings *)

Empty == <<>>
Colon == <<":">>
Dot == <<".">>
At == <<"@">>

Range(s) == {s[i] : i \in DOMAIN s}

SeqSum(f(_), s) == LET RECURSIVE go(_)
                    go(i) == IF i > Len(s) THEN <<>> ELSE f(s[i]) \o go(i + 1)
                IN go(1)

\* All orderings of a finite set (the iteration orders of a Go map).
RECURSIVE Perms(_)
Perms(S) == IF S = {} THEN {<<>>}
            ELSE UNION {{<<x>> \o p : p \in Perms(S \ {x})} : x \in S}

\* All sequences over S of length at most n.
RECURSIVE SeqsUpTo(_, _)
SeqsUpTo(S, n) == IF n = 0 THEN {<<>>}
                  ELSE LET shorter == SeqsUpTo(S, n - 1)
                       IN shorter \cup {Append(s, x) : s \in shorter, x \in S}

-----------------------------------------------------------------------------
(* Pointers to slices *)

NilList == [nil |-> TRUE, v |-> <<>>]
List(s) == [nil |-> FALSE, v |-> s]
\* append(*p, xs...) on a non-nil pointer
AppendAll(p, xs) == [nil |-> FALSE, v |-> p.v \o xs]
\* if len(*p) == 0 { p = nil }
NilIfEmpty(p) == IF Len(p.v) = 0 THEN NilList ELSE p

-----------------------------------------------------------------------------
(* cyclonedx.BOM and its parts *)

NilComponent == [nil |-> TRUE, Group |-> Empty, Name |-> Empty,
                 Version |-> Empty, BOMRef |-> Empty, Components |-> <<>>]
\* A cyclonedx.Component; Components holds the nested sub-components
\* (a nil and an empty sub-component list behave alike in every function).
Component(g, n, v, ref, subs) ==
    [nil |-> FALSE, Group |-> g, Name |-> n, Version |-> v, BOMRef |-> ref,
     Components |-> subs]

NilTools == [nil |-> TRUE, Components |-> NilList, Services |-> NilList]
NilMetadata == [nil |-> TRUE, Component |-> NilComponent, Tools |-> NilTools]
NilTargets == [nil |-> TRUE, Components |-> NilList,
               Organizations |-> NilList, Services |-> NilList]
NilDeclarations == [nil |-> TRUE, Assessors |-> NilList,
                    Attestations |-> NilList, Claims |-> NilList,
                    Evidence |-> NilList, Targets |-> NilTargets]
NilDefinitions == [nil |-> TRUE, Standards |-> NilList]

\* The zero value cyclonedx.BOM{}.
EmptyBOM == [SerialNumber |-> Empty, Version |-> 0, Metadata |-> NilMetadata,
             Components |-> NilList, Services |-> NilList,
             ExternalReferences |-> NilList, Dependencies |-> NilList,
             Compositions |-> NilList, Vulnerabilities |-> NilList,
             Declarations |-> NilDeclarations,
             Definitions |-> NilDefinitions]

-----------------------------------------------------------------------------
(* Namespacing helpers, README.md:371-617 *)

\* A namespace that leaves the version out.
componentBOMRefNamespaceUnversioned(component) ==
    IF component.nil THEN Empty
    ELSE IF component.Group # Empty
         THEN component.Group \o Dot \o component.Name
         ELSE component.Name

\* README.md:372-381
componentBOMRefNamespace(component) ==
    IF component.nil THEN Empty
    ELSE IF component.Group # Empty
         THEN component.Group \o Dot \o component.Name \o At \o component.Version
         ELSE component.Name \o At \o component.Version

namespacedBOMRefWithNamespace(bomRefNamespace, bomRef) ==
    IF bomRef = Empty THEN Empty
    ELSE IF bomRefNamespace = Empty THEN bomRef
    ELSE bomRefNamespace \o Colon \o bomRef

namespacedBOMRef(component, bomRef) ==
    IF bomRef = Empty THEN Empty
    ELSE namespacedBOMRefWithNamespace(componentBOMRefNamespace(component), bomRef)

\* Rewrites the BOMRef field of every element of a slice of structs.
namespaceBOMRefs(namespace, items) ==
    IF namespace = Empty THEN items
    ELSE [i \in DOMAIN items |->
            IF items[i].BOMRef # Empty
            THEN [items[i] EXCEPT
                    !.BOMRef = namespacedBOMRefWithNamespace(namespace, @)]
            ELSE items[i]]

namespaceBOMRefsWithComponent(bomSubject, references) ==
    namespaceBOMRefs(componentBOMRefNamespace(bomSubject), references)

\* namespaceProperty on a []string / *[]string property value.
namespaceStrings(namespace, strs) ==
    IF namespace = Empty THEN strs
    ELSE [j \in DOMAIN strs |-> namespacedBOMRefWithNamespace(namespace, strs[j])]

\* namespaceProperty on a string property value.
namespaceString(namespace, str) ==
    IF namespace = Empty \/ str = Empty THEN str
    ELSE namespacedBOMRefWithNamespace(namespace, str)

\* The stack loop visits the component and every descendant once; each gets
\* the same namespace.
RECURSIVE namespaceComponentBOMRefs(_, _)
namespaceComponentBOMRefs(bomRefNamespace, topComponent) ==
    IF topComponent.nil \/ bomRefNamespace = Empty THEN topComponent
    ELSE [topComponent EXCEPT
            !.BOMRef = namespacedBOMRefWithNamespace(bomRefNamespace, @),
            !.Components = [i \in DOMAIN @ |->
                namespaceComponentBOMRefs(bomRefNamespace, @[i])]]

\* What namespaceComponentBOMRefs leaves in a struct COPY's original: the
\* copy's own BOMRef is rewritten, the sub-component array is shared.
namespaceSharedChildren(bomRefNamespace, component) ==
    [component EXCEPT !.Components =
        namespaceComponentBOMRefs(bomRefNamespace, component).Components]

\* Only the ref of each entry is rewritten.
namespaceDependencyRefsOnly(bomRefNamespace, dependencies) ==
    IF bomRefNamespace = Empty THEN dependencies
    ELSE [i \in DOMAIN dependencies |->
            [dependencies[i] EXCEPT
                !.Ref = namespacedBOMRefWithNamespace(bomRefNamespace, @)]]

\* README.md:526-548
namespaceDependencyBOMRefs(bomRefNamespace, dependencies) ==
    IF bomRefNamespace = Empty THEN dependencies
    ELSE [i \in DOMAIN dependencies |->
            [Ref |-> namespacedBOMRefWithNamespace(bomRefNamespace,
                                                   dependencies[i].Ref),
             Dependencies |->
                IF dependencies[i].Dependencies.nil THEN NilList
                ELSE List([j \in DOMAIN dependencies[i].Dependencies.v |->
                        namespacedBOMRefWithNamespace(bomRefNamespace,
                            dependencies[i].Dependencies.v[j])])]]

\* Only the assemblies are rewritten.
namespaceCompositionAssemblies(bomRefNamespace, compositions) ==
    IF bomRefNamespace = Empty THEN compositions
    ELSE [i \in DOMAIN compositions |->
            [compositions[i] EXCEPT
                !.Assemblies = [j \in DOMAIN @ |->
                    namespacedBOMRefWithNamespace(bomRefNamespace, @[j])]]]

\* README.md:551-571
namespaceCompositions(bomRefNamespace, compositions) ==
    IF bomRefNamespace = Empty THEN compositions
    ELSE [i \in DOMAIN compositions |->
            [Assemblies |-> [j \in DOMAIN compositions[i].Assemblies |->
                namespacedBOMRefWithNamespace(bomRefNamespace,
                                              compositions[i].Assemblies[j])],
             Dependencies |-> [j \in DOMAIN compositions[i].Dependencies |->
                namespacedBOMRefWithNamespace(bomRefNamespace,
                                              compositions[i].Dependencies[j])]]]

\* Every affects entry keeps its target, prefixed like the other ids.
namespaceVulnerabilitiesKeepTargets(bomRefNamespace, vulnerabilities) ==
    IF bomRefNamespace = Empty THEN vulnerabilities
    ELSE [i \in DOMAIN vulnerabilities |->
            [BOMRef |-> namespacedBOMRefWithNamespace(bomRefNamespace,
                                                      vulnerabilities[i].BOMRef),
             Affects |-> [j \in DOMAIN vulnerabilities[i].Affects |->
                            [Ref |-> namespacedBOMRefWithNamespace(
                                bomRefNamespace,
                                vulnerabilities[i].Affects[j].Ref)]]]]

\* README.md:574-597
namespaceVulnerabilitiesRefs(bomRefNamespace, vulnerabilities) ==
    IF bomRefNamespace = Empty THEN vulnerabilities
    ELSE [i \in DOMAIN vulnerabilities |->
            [BOMRef |-> namespacedBOMRefWithNamespace(bomRefNamespace,
                                                      vulnerabilities[i].BOMRef),
             Affects |-> [j \in DOMAIN vulnerabilities[i].Affects |->
                            [Ref |-> bomRefNamespace]]]]

containsComponent(components, target) ==
    \E i \in DOMAIN components : components[i].BOMRef = target.BOMRef

containsService(services, target) ==
    \E i \in DOMAIN services : services[i].BOMRef = target.BOMRef

-----------------------------------------------------------------------------
(* HierarchicalMerge, README.md:97-367 *)

NoError == [is |-> "nil", detail |-> Empty]
ErrMissingMetadataComponent(serialNumber) ==
    [is |-> "ErrMissingMetadataComponent", detail |-> serialNumber]
ErrMissingSubject ==
    [is |-> "name and version must be specified for a hierarchical merge",
     detail |-> Empty]
Unknown == <<"u", "n", "k", "n", "o", "w", "n">>

\* README.md:98-135: the result before the first document.
initResult(bomSubject) ==
    [EmptyBOM EXCEPT
        !.Metadata =
            IF bomSubject.nil THEN NilMetadata
            ELSE [nil |-> FALSE,
                  Component |-> [bomSubject EXCEPT !.BOMRef =
                      IF @ = Empty THEN componentBOMRefNamespace(bomSubject)
                      ELSE @],
                  Tools |-> [nil |-> FALSE, Components |-> NilList,
                             Services |-> NilList]],
        !.Components = List(<<>>),
        !.Services = List(<<>>),
        !.ExternalReferences = List(<<>>),
        !.Dependencies = List(<<>>),
        !.Compositions = List(<<>>),
        !.Vulnerabilities = List(<<>>),
        !.Declarations =
            [nil |-> FALSE, Assessors |-> List(<<>>),
             Attestations |-> List(<<>>), Claims |-> List(<<>>),
             Evidence |-> List(<<>>),
             Targets |-> [nil |-> FALSE, Components |-> List(<<>>),
                          Organizations |-> List(<<>>),
                          Services |-> List(<<>>)]],
        !.Definitions = [nil |-> FALSE, Standards |-> List(<<>>)]]

\* README.md:139: the document has its metadata component.
hasMetadataComponent(bom) == ~bom.Metadata.nil /\ ~bom.Metadata.Component.nil

\* The error never names the document.
missingMetadataErrorUnnamed(bom) == ErrMissingMetadataComponent(Unknown)

\* README.md:140-144
missingMetadataError(bom) ==
    ErrMissingMetadataComponent(
        IF bom.SerialNumber # Empty THEN bom.SerialNumber ELSE Unknown)

\* for _, x := range items { if !contains(acc, x) { acc = append(acc, x) } }
RECURSIVE appendIfAbsent(_, _)
appendIfAbsent(acc, items) ==
    IF items = <<>> THEN acc
    ELSE appendIfAbsent(
            IF containsComponent(acc, Head(items)) THEN acc
            ELSE Append(acc, Head(items)),
            Tail(items))

RECURSIVE appendServiceIfAbsent(_, _)
appendServiceIfAbsent(acc, items) ==
    IF items = <<>> THEN acc
    ELSE appendServiceIfAbsent(
            IF containsService(acc, Head(items)) THEN acc
            ELSE Append(acc, Head(items)),
            Tail(items))

\* README.md:147-183: the result's tools after one document.
mergeTools(resMeta, bom) ==
    IF resMeta.nil \/ bom.Metadata.Tools.nil THEN resMeta.Tools
    ELSE
      LET ns == componentBOMRefNamespace(bom.Metadata.Component)
          tc == bom.Metadata.Tools.Components
          ts == bom.Metadata.Tools.Services
          \* 150-155: the declared tools are appended as they are; their
          \* sub-component arrays are shared with the copies rewritten below
          raw == [i \in DOMAIN tc.v |-> namespaceSharedChildren(ns, tc.v[i])]
          spaced == [i \in DOMAIN tc.v |-> namespaceComponentBOMRefs(ns, tc.v[i])]
          comps == IF ~tc.nil /\ Len(tc.v) > 0
                   THEN List(appendIfAbsent(resMeta.Tools.Components.v \o raw,
                                            spaced))
                   ELSE resMeta.Tools.Components
          svcs == IF ~ts.nil /\ Len(ts.v) > 0
                  THEN List(appendServiceIfAbsent(resMeta.Tools.Services.v,
                         [i \in DOMAIN ts.v |-> [ts.v[i] EXCEPT !.BOMRef =
                             namespacedBOMRef(bom.Metadata.Component, @)]]))
                  ELSE resMeta.Tools.Services
      IN [nil |-> FALSE, Components |-> comps, Services |-> svcs]

\* README.md:185-200: the document's root component with the flat component
\* list absorbed and every reference id of the subtree rewritten.
absorbedRoot(bom) ==
    LET thisComponent == bom.Metadata.Component
        absorbed == [thisComponent EXCEPT !.Components = @ \o bom.Components.v]
        spaced == namespaceComponentBOMRefs(
                      componentBOMRefNamespace(absorbed), absorbed)
    IN [spaced EXCEPT !.BOMRef =
            IF @ = Empty THEN componentBOMRefNamespace(spaced) ELSE @]

\* README.md:230-237
namespaceForVulns(res, bom) ==
    IF ~res.Metadata.nil /\ ~res.Metadata.Component.nil
    THEN componentBOMRefNamespace(res.Metadata.Component)
    ELSE componentBOMRefNamespace(bom.Metadata.Component)

\* README.md:250-265: the document's standards, rewritten in place.
spacedStandards(ns, standards) ==
    LET top == namespaceBOMRefs(ns, standards)
    IN [i \in DOMAIN top |->
          [top[i] EXCEPT
             !.Requirements = IF @.nil THEN @
                              ELSE List(namespaceBOMRefs(ns, @.v)),
             !.Levels = IF @.nil THEN @
                        ELSE List([j \in DOMAIN @.v |->
                               [namespaceBOMRefs(ns, @.v)[j] EXCEPT
                                  !.Requirements = IF @.nil THEN @
                                      ELSE List(namespaceStrings(ns, @.v))]])]]

\* README.md:275-291.  The conformance is handed over wrapped in a
\* []interface{}: reflect sees elements of kind Interface, neither Ptr nor
\* Struct, and namespaceProperty skips them (README.md:452-459).
spacedAttestations(ns, attestations) ==
    [i \in DOMAIN attestations |->
       [attestations[i] EXCEPT
          !.Assessor = namespaceString(ns, @),
          !.Map = IF @.nil THEN @
                  ELSE List([j \in DOMAIN @.v |->
                         [@.v[j] EXCEPT
                            !.Claims = IF @.nil THEN @
                                       ELSE List(namespaceStrings(ns, @.v)),
                            !.CounterClaims = IF @.nil THEN @
                                       ELSE List(namespaceStrings(ns, @.v)),
                            !.Requirement = namespaceString(ns, @)]])]]

\* README.md:295-301
spacedClaims(ns, claims) ==
    LET top == namespaceBOMRefs(ns, claims)
    IN [i \in DOMAIN top |->
          [top[i] EXCEPT
             !.Evidence = IF @.nil THEN @ ELSE List(namespaceStrings(ns, @.v)),
             !.CounterEvidence = IF @.nil THEN @
                                 ELSE List(namespaceStrings(ns, @.v)),
             !.Target = namespaceString(ns, @)]]

\* p != nil ? rewrite(*p) : p
OnList(p, f(_)) == IF p.nil THEN p ELSE List(f(p.v))

\* README.md:147-328: one iteration of the loop over the input documents, for
\* a document that has its metadata component.  The result after it.
mergeBomResult(res, bom) ==
    LET thisComponent == absorbedRoot(bom)
        ns == componentBOMRefNamespace(bom.Metadata.Component)
        decl == bom.Declarations
        spaceTargets(items) == namespaceBOMRefsWithComponent(thisComponent, items)
        addTo(p, q) == IF q.nil THEN p ELSE AppendAll(p, q.v)
    IN [res EXCEPT
          !.Metadata = IF @.nil THEN @
                       ELSE [@ EXCEPT !.Tools = mergeTools(res.Metadata, bom)],
          !.Components = AppendAll(@, <<thisComponent>>),
          !.Services = IF bom.Services.nil THEN @
                       ELSE AppendAll(@, [i \in DOMAIN bom.Services.v |->
                              [bom.Services.v[i] EXCEPT !.BOMRef =
                                  namespacedBOMRef(bom.Metadata.Component, @)]]),
          !.ExternalReferences = addTo(@, bom.ExternalReferences),
          !.Dependencies = IF bom.Dependencies.nil THEN @
                           ELSE AppendAll(@, namespaceDependencyBOMRefs(ns,
                                                 bom.Dependencies.v)),
          !.Compositions = IF bom.Compositions.nil THEN @
                           ELSE AppendAll(@, namespaceCompositions(ns,
                                                 bom.Compositions.v)),
          !.Vulnerabilities = IF bom.Vulnerabilities.nil THEN @
                              ELSE AppendAll(@, namespaceVulnerabilitiesRefs(
                                      namespaceForVulns(res, bom),
                                      bom.Vulnerabilities.v)),
          !.Definitions = IF bom.Definitions.nil \/ bom.Definitions.Standards.nil
                          THEN @
                          ELSE [@ EXCEPT !.Standards = AppendAll(@,
                                  spacedStandards(ns, bom.Definitions.Standards.v))],
          !.Declarations =
              IF decl.nil THEN @
              ELSE [@ EXCEPT
                      !.Assessors = IF decl.Assessors.nil THEN @
                          ELSE AppendAll(@, namespaceBOMRefs(ns, decl.Assessors.v)),
                      !.Attestations = IF decl.Attestations.nil THEN @
                          ELSE AppendAll(@, spacedAttestations(ns,
                                                decl.Attestations.v)),
                      !.Claims = IF decl.Claims.nil THEN @
                          ELSE AppendAll(@, spacedClaims(ns, decl.Claims.v)),
                      !.Evidence = IF decl.Evidence.nil THEN @
                          ELSE AppendAll(@, namespaceBOMRefs(ns, decl.Evidence.v)),
                      \* 310-327: the targets already in the result are
                      \* rewritten, then the document's own are appended
                      !.Targets = IF @.nil THEN @ ELSE
                          [nil |-> FALSE,
                           Organizations |->
                              addTo(List(spaceTargets(@.Organizations.v)),
                                    IF decl.Targets.nil THEN NilList
                                    ELSE decl.Targets.Organizations),
                           Components |->
                              addTo(List(spaceTargets(@.Components.v)),
                                    IF decl.Targets.nil THEN NilList
                                    ELSE decl.Targets.Components),
                           Services |->
                              addTo(List(spaceTargets(@.Services.v)),
                                    IF decl.Targets.nil THEN NilList
                                    ELSE decl.Targets.Services)]]]

\* The same iteration: what it leaves in the caller's document, which it
\* rewrites through the pointers it shares with it.
mergeBomInput(res, bom) ==
    LET ns == componentBOMRefNamespace(bom.Metadata.Component)
        shared(cs) == [i \in DOMAIN cs |-> namespaceSharedChildren(ns, cs[i])]
        spaceRefs(items) == namespaceBOMRefs(ns, items)
        spaceDeps(items) == namespaceDependencyBOMRefs(ns, items)
        spaceComps(items) == namespaceCompositions(ns, items)
        spaceVulns(items) ==
            namespaceVulnerabilitiesRefs(namespaceForVulns(res, bom), items)
        spaceStds(items) == spacedStandards(ns, items)
        spaceAtts(items) == spacedAttestations(ns, items)
        spaceClaims(items) == spacedClaims(ns, items)
    IN [bom EXCEPT
          !.Metadata.Component = absorbedRoot(bom),
          !.Metadata.Tools.Components =
              IF res.Metadata.nil \/ bom.Metadata.Tools.nil THEN @
              ELSE OnList(@, shared),
          !.Components = OnList(@, shared),
          !.Dependencies = OnList(@, spaceDeps),
          !.Compositions = OnList(@, spaceComps),
          !.Vulnerabilities = OnList(@, spaceVulns),
          !.Definitions.Standards = OnList(@, spaceStds),
          !.Declarations.Assessors = OnList(@, spaceRefs),
          !.Declarations.Attestations = OnList(@, spaceAtts),
          !.Declarations.Claims = OnList(@, spaceClaims),
          !.Declarations.Evidence = OnList(@, spaceRefs)]

\* The final entry with the root references in reverse order.
finalDependencyReversed(res, deps) ==
    [Ref |-> res.Metadata.Component.BOMRef,
     Dependencies |-> List([i \in DOMAIN deps |-> deps[Len(deps) + 1 - i]])]

\* README.md:331-341
finalDependency(res, deps) ==
    [Ref |-> res.Metadata.Component.BOMRef, Dependencies |-> List(deps)]

\* README.md:331-366: after the loop.
finishResult(res, bomSubject, deps) ==
    LET withDep == IF bomSubject.nil THEN res
                   ELSE [res EXCEPT !.Dependencies =
                            AppendAll(@, <<finalDependency(res, deps)>>)]
    IN [withDep EXCEPT
          !.Metadata = IF ~@.nil /\ ~@.Tools.nil /\ ~@.Tools.Components.nil
                          /\ Len(@.Tools.Components.v) = 0
                       THEN [@ EXCEPT !.Tools.Components = NilList] ELSE @,
          !.Components = NilIfEmpty(@),
          !.Services = NilIfEmpty(@),
          !.ExternalReferences = NilIfEmpty(@),
          !.Dependencies = NilIfEmpty(@),
          !.Compositions = NilIfEmpty(@),
          !.Vulnerabilities = NilIfEmpty(@)]

NilBOM == [nil |-> TRUE, bom |-> EmptyBOM]
SomeBOM(b) == [nil |-> FALSE, bom |-> b]

\* HierarchicalMerge as a function: the loop from document i on.
\* Returns the (document, error) pair and the input documents as left behind.
RECURSIVE mergeFrom(_, _, _, _, _)
mergeFrom(res, deps, docs, i, bomSubject) ==
    IF i > Len(docs)
    THEN [bom |-> SomeBOM(finishResult(res, bomSubject, deps)),
          err |-> NoError, boms |-> docs]
    ELSE IF ~hasMetadataComponent(docs[i])
    THEN [bom |-> NilBOM, err |-> missingMetadataError(docs[i]), boms |-> docs]
    ELSE mergeFrom(mergeBomResult(res, docs[i]),
                   Append(deps, absorbedRoot(docs[i]).BOMRef),
                   [docs EXCEPT ![i] = mergeBomInput(res, docs[i])],
                   i + 1, bomSubject)

HierarchicalMerge(docs, bomSubject) ==
    mergeFrom(initResult(bomSubject), <<>>, docs, 1, bomSubject)

\* A subject is accepted on its name alone.
subjectNamed(opts) == opts.Name # Empty

\* README.md:66: the subject has a name and a version.
subjectIdentified(opts) == opts.Name # Empty /\ opts.Version # Empty

\* README.md:71-76
subjectOf(opts) == Component(opts.Group, opts.Name, opts.Version, Empty, <<>>)

\* README.md:84-91
finalizeBOM(b) == [b EXCEPT !.Version = 1,
                            !.Metadata = IF @.nil
                                         THEN [NilMetadata EXCEPT !.nil = FALSE]
                                         ELSE @]

\* README.md:64-92
CycloneDXMerge(opts) ==
    IF ~subjectIdentified(opts)
    THEN [bom |-> NilBOM, err |-> ErrMissingSubject, boms |-> opts.BOMs]
    ELSE LET r == HierarchicalMerge(opts.BOMs, subjectOf(opts))
         IN IF r.err # NoError THEN r
            ELSE [r EXCEPT !.bom = SomeBOM(finalizeBOM(r.bom.bom))]

-----------------------------------------------------------------------------
(* Inputs of the Document Merger *)

sA == <<"a">>
sB == <<"b">>
sAB == <<"a", ".", "b">>
sLib == <<"l", "i", "b">>
sApp == <<"a", "p", "p">>
sV1 == <<"1", ".", "0">>
sV2 == <<"2", ".", "0">>
sR == <<"r">>
sC1 == <<"c", "1">>
sC2 == <<"c", "2">>
sC3 == <<"c", "3">>
sS1 == <<"s", "1">>
sT1 == <<"t", "1">>
sT2 == <<"t", "2">>
sX1 == <<"x", "1">>
sX2 == <<"x", "2">>
sSerial == <<"u", "r", "n", ":", "7">>

MaxDocs == 2

Metadata(component, tools) ==
    [nil |-> FALSE, Component |-> component, Tools |-> tools]

\* A document that carries its root component and nothing else.
BareDoc(root) == [EmptyBOM EXCEPT !.Metadata = Metadata(root, NilTools)]

\* A document with a component tree, services and cross references.
TreeDoc(root) ==
    [EmptyBOM EXCEPT
        !.SerialNumber = sSerial,
        !.Metadata = Metadata(
            [root EXCEPT !.Components =
                <<Component(Empty, sA, sV1, sC1,
                            <<Component(Empty, sB, sV1, sC2, <<>>)>>)>>],
            NilTools),
        !.Components = List(<<Component(Empty, sAB, sV2, sC3, <<>>),
                              Component(Empty, sB, sV2, Empty, <<>>)>>),
        !.Services = List(<<[BOMRef |-> sS1], [BOMRef |-> Empty]>>),
        !.ExternalReferences = List(<<[URL |-> sX1]>>),
        !.Dependencies = List(<<
            [Ref |-> root.BOMRef, Dependencies |-> List(<<sC1, sC3>>)],
            [Ref |-> sC1, Dependencies |-> List(<<sC2>>)],
            [Ref |-> sC3, Dependencies |-> NilList]>>),
        !.Compositions = List(<<[Assemblies |-> <<sC1, sC2>>,
                                 Dependencies |-> <<sC3>>]>>),
        !.Vulnerabilities = List(<<
            [BOMRef |-> sX1, Affects |-> <<[Ref |-> sC1], [Ref |-> sC3]>>],
            [BOMRef |-> sX2, Affects |-> <<>>]>>)]

\* A document with tools, declarations and standards.
DeclDoc(root) ==
    [EmptyBOM EXCEPT
        !.Metadata = Metadata(root,
            [nil |-> FALSE,
             Components |-> List(<<Component(Empty, sA, sV1, sT1, <<>>),
                                   Component(Empty, sB, sV1, sT2, <<>>)>>),
             Services |-> List(<<[BOMRef |-> sT1]>>)]),
        !.Declarations =
            [nil |-> FALSE,
             Assessors |-> List(<<[BOMRef |-> sA]>>),
             Attestations |-> List(<<
                [Assessor |-> sA,
                 Map |-> List(<<
                    [Claims |-> List(<<sC1>>),
                     CounterClaims |-> List(<<sC2>>),
                     Requirement |-> sR,
                     Conformance |-> [nil |-> FALSE,
                         MitigationStrategies |-> List(<<sX1>>)]]>>)]>>),
             Claims |-> List(<<[BOMRef |-> sC1, Evidence |-> List(<<sX1>>),
                                CounterEvidence |-> NilList,
                                Target |-> sT1]>>),
             Evidence |-> List(<<[BOMRef |-> sX1]>>),
             Targets |-> [nil |-> FALSE,
                          Organizations |-> List(<<[BOMRef |-> sT1]>>),
                          Components |-> List(<<
                              Component(Empty, sA, sV1, sT2, <<>>)>>),
                          Services |-> NilList]],
        !.Definitions =
            [nil |-> FALSE,
             Standards |-> List(<<
                [BOMRef |-> sS1,
                 Requirements |-> List(<<[BOMRef |-> sR]>>),
                 Levels |-> List(<<[BOMRef |-> sX1,
                                    Requirements |-> List(<<sR>>)]>>)]>>)]]

\* A document whose collections are all present and all empty.
HollowDoc(root) ==
    [EmptyBOM EXCEPT
        !.Metadata = Metadata(root, [nil |-> FALSE, Components |-> List(<<>>),
                                     Services |-> List(<<>>)]),
        !.Components = List(<<>>),
        !.Services = List(<<>>),
        !.ExternalReferences = List(<<>>),
        !.Dependencies = List(<<>>),
        !.Compositions = List(<<>>),
        !.Vulnerabilities = List(<<>>),
        !.Declarations = [nil |-> FALSE, Assessors |-> List(<<>>),
                          Attestations |-> List(<<>>), Claims |-> List(<<>>),
                          Evidence |-> List(<<>>),
                          Targets |-> [nil |-> FALSE,
                                       Components |-> List(<<>>),
                                       Organizations |-> List(<<>>),
                                       Services |-> List(<<>>)]],
        !.Definitions = [nil |-> FALSE, Standards |-> List(<<>>)]]

\* Documents without the root metadata component.
NoMetadataDoc == EmptyBOM
NoComponentDoc == [EmptyBOM EXCEPT
                     !.SerialNumber = sSerial,
                     !.Metadata = [NilMetadata EXCEPT !.nil = FALSE]]

RootSet ==
    {Component(g, n, v, sR, <<>>) :
        g \in {Empty, sA}, n \in {sB, sAB, sLib}, v \in {sV1, sV2}}
    \cup {Component(Empty, sLib, sV1, Empty, <<>>),
          Component(Empty, sApp, sV1, Empty, <<>>)}

DocSet ==
    {BareDoc(r) : r \in RootSet}
    \cup {TreeDoc(Component(Empty, sLib, v, sR, <<>>)) : v \in {sV1, sV2}}
    \cup {DeclDoc(Component(Empty, sLib, v, sR, <<>>)) : v \in {sV1, sV2}}
    \cup {HollowDoc(Component(sA, sB, sV1, sR, <<>>))}
    \cup {NoMetadataDoc, NoComponentDoc}

Options(docs, g, n, v) == [BOMs |-> docs, Group |-> g, Name |-> n, Version |-> v]

OptionSet ==
    {Options(docs, Empty, nv[1], nv[2]) :
        docs \in SeqsUpTo(DocSet, MaxDocs),
        nv \in {<<sApp, sV1>>, <<Empty, sV1>>, <<sApp, Empty>>}}

-----------------------------------------------------------------------------
(* CycloneDXMerge step by step *)

MergeIdle ==
    /\ options = Options(<<>>, Empty, Empty, Empty)
    /\ boms = <<>>
    /\ idx = 0
    /\ result = EmptyBOM
    /\ bomSubjectDependencies = <<>>
    /\ outBom = NilBOM
    /\ outErr = NoError

OrchIdle ==
    /\ queue = <<>>
    /\ visited = {}
    /\ childrenOf = <<>>
    /\ parentsOf = <<>>
    /\ resourceSBOMPath = <<>>
    /\ resultPath = <<>>
    /\ remainingChildren = <<>>
    /\ allNodes = {}
    /\ processed = {}
    /\ batch = <<>>
    /\ next = <<>>
    /\ files = <<>>
    /\ returned = <<>>
    /\ failedFetch = {}
    /\ processLog = <<>>
    /\ fetchCalls = <<>>
    /\ leafCalls = <<>>
    /\ targetFormat = <<>>
    /\ convertCalls = 0
    /\ sbom = <<>>
    /\ sbomErr = "nil"

InitMerge ==
    /\ pc = "CycloneDXMerge"
    /\ options \in OptionSet
    /\ boms = options.BOMs
    /\ idx = 0
    /\ result = EmptyBOM
    /\ bomSubjectDependencies = <<>>
    /\ outBom = NilBOM
    /\ outErr = NoError
    /\ OrchIdle

\* README.md:66-68
CycloneDXMergeReject ==
    /\ pc = "CycloneDXMerge"
    /\ ~subjectIdentified(options)
    /\ outBom' = NilBOM
    /\ outErr' = ErrMissingSubject
    /\ pc' = "merged"
    /\ UNCHANGED <<options, boms, idx, result, bomSubjectDependencies>>
    /\ UNCHANGED orchVars

\* README.md:70-79 and 98-135
HierarchicalMergeEnter ==
    /\ pc = "CycloneDXMerge"
    /\ subjectIdentified(options)
    /\ result' = initResult(subjectOf(options))
    /\ bomSubjectDependencies' = <<>>
    /\ pc' = "HierarchicalMerge"
    /\ UNCHANGED <<options, boms, idx, outBom, outErr>>
    /\ UNCHANGED orchVars

\* README.md:137-145
HierarchicalMergeAbort ==
    /\ pc = "HierarchicalMerge"
    /\ idx < Len(boms)
    /\ ~hasMetadataComponent(boms[idx + 1])
    /\ idx' = idx + 1
    /\ outBom' = NilBOM
    /\ outErr' = missingMetadataError(boms[idx + 1])
    /\ pc' = "merged"
    /\ UNCHANGED <<options, boms, result, bomSubjectDependencies>>
    /\ UNCHANGED orchVars

\* README.md:137-329
HierarchicalMergeBom ==
    /\ pc = "HierarchicalMerge"
    /\ idx < Len(boms)
    /\ hasMetadataComponent(boms[idx + 1])
    /\ idx' = idx + 1
    /\ result' = mergeBomResult(result, boms[idx + 1])
    /\ bomSubjectDependencies' =
          Append(bomSubjectDependencies, absorbedRoot(boms[idx + 1]).BOMRef)
    /\ boms' = [boms EXCEPT ![idx + 1] = mergeBomInput(result, boms[idx + 1])]
    /\ UNCHANGED <<pc, options, outBom, outErr>>
    /\ UNCHANGED orchVars

\* README.md:331-366 and 84-91
HierarchicalMergeReturn ==
    /\ pc = "HierarchicalMerge"
    /\ idx = Len(boms)
    /\ outBom' = SomeBOM(finalizeBOM(
          finishResult(result, subjectOf(options), bomSubjectDependencies)))
    /\ outErr' = NoError
    /\ pc' = "merged"
    /\ UNCHANGED <<options, boms, idx, result, bomSubjectDependencies>>
    /\ UNCHANGED orchVars

NextMerge ==
    \/ CycloneDXMergeReject
    \/ HierarchicalMergeEnter
    \/ HierarchicalMergeAbort
    \/ HierarchicalMergeBom
    \/ HierarchicalMergeReturn

SpecMerge == InitMerge /\ [][NextMerge]_vars

-----------------------------------------------------------------------------
(* processAllComponents, convert_impl.go:45-218 *)

sBC == <<"b", ":", "c">>
sImg == <<"i", "m", "g">>

MaxRefs == 2

compKey(n, v) == [Name |-> n, Version |-> v]

\* The component versions a descriptor may reference.
KeyUniverse == {compKey(sApp, sV1), compKey(sLib, sV1), compKey(sLib, sV2),
                compKey(sBC, sV1)}
RootKey == compKey(sApp, sV1)

\* The repositories explored: the references a component version's
\* descriptor may list (any sequence of them up to MaxRefs, repeats
\* included).  They allow diamonds, repeated references, a self reference
\* and a cycle of two.
MayReference(key) ==
    IF key = compKey(sApp, sV1) THEN {compKey(sLib, sV1), compKey(sLib, sV2)}
    ELSE IF key = compKey(sLib, sV1) THEN {compKey(sBC, sV1)}
    ELSE IF key = compKey(sLib, sV2) THEN {compKey(sBC, sV1), compKey(sLib, sV2)}
    ELSE {compKey(sLib, sV2)}

\* convert_impl.go:53
id(n, v) == n \o Colon \o v
keyID(k) == id(k.Name, k.Version)
IDs == {keyID(k) : k \in KeyUniverse}
rootID == keyID(RootKey)

\* strings.SplitN(nid, ":", 2), convert_impl.go:174
FirstColon(str) ==
    IF \E i \in DOMAIN str : str[i] = ":"
    THEN CHOOSE i \in DOMAIN str :
            str[i] = ":" /\ \A j \in 1..(i - 1) : str[j] # ":"
    ELSE 0
SplitN2(str) ==
    IF FirstColon(str) = 0 THEN <<str>>
    ELSE <<SubSeq(str, 1, FirstColon(str) - 1),
           SubSeq(str, FirstColon(str) + 1, Len(str))>>

\* convert_impl.go:173-178
compNameOf(nid) == SplitN2(nid)[1]
compVersionOf(nid) == IF Len(SplitN2(nid)) = 2 THEN SplitN2(nid)[2] ELSE Empty

\* part_005:510-529
Problematic == {"/", "\\", ":", "*", "?", "\"", "<", ">", "|"}
sanitizeFilename(filename) ==
    [i \in DOMAIN filename |->
        IF filename[i] \in Problematic THEN "-" ELSE filename[i]]

\* Paths: a directory and the part of the file name that varies.
NoPath == [dir |-> Empty, file |-> Empty]
TempDir == <<"T">>
\* os.MkdirTemp gives every ProcessComponent call a directory of its own
\* (component_processor.go:32); the node id stands for its random suffix.
sbomDir(nid) == TempDir \o <<"/">> \o nid
\* part_002:213-214
mergedSbomPath(dir, componentName) ==
    [dir |-> dir, file |-> sanitizeFilename(componentName)]

\* What the scanner writes for an image resource and what the merge of the
\* component's resource documents under the component's name and version
\* leaves at the component's leaf path (component_processor.go:37-61).
ScanDoc == BareDoc(Component(Empty, sImg, sV1, sImg, <<>>))
LeafDoc(key) ==
    CycloneDXMerge(Options(<<ScanDoc>>, Empty, key.Name, key.Version)).bom.bom

Zero(S, z) == [x \in S |-> z]

\* What ConvertOCMToSBOM returns: nil, or the bytes of a document in an
\* encoding.
NoBytes == [nil |-> TRUE, encoding |-> Empty, doc |-> <<>>]
EmptyBytes == [nil |-> FALSE, encoding |-> Empty, doc |-> <<>>]
Bytes(encoding, doc) == [nil |-> FALSE, encoding |-> encoding, doc |-> <<doc>>]

Init ==
    /\ pc = "discover"
    /\ queue = <<RootKey>>
    /\ visited = {}
    /\ childrenOf = Zero(IDs, <<>>)
    /\ parentsOf = Zero(IDs, {})
    /\ resourceSBOMPath = Zero(IDs, NoPath)
    /\ resultPath = Zero(IDs, NoPath)
    /\ remainingChildren = Zero(IDs, 0)
    /\ allNodes = {}
    /\ processed = {}
    /\ batch = <<>>
    /\ next = <<>>
    /\ files = <<>>
    /\ returned = <<>>
    /\ failedFetch = {}
    /\ processLog = <<>>
    /\ fetchCalls = Zero(KeyUniverse, 0)
    /\ leafCalls = Zero(KeyUniverse, 0)
    /\ targetFormat = Empty
    /\ convertCalls = 0
    /\ sbom = NoBytes
    /\ sbomErr = "nil"
    /\ MergeIdle

\* A key counts as visited only once its descriptor was obtained.
visitedOnceFetched(key) == keyID(key) \in allNodes

\* convert_impl.go:75-76
alreadyVisited(key) == keyID(key) \in visited

\* convert_impl.go:73-78: the key was visited before.
DiscoverVisited ==
    /\ pc = "discover"
    /\ queue # <<>>
    /\ alreadyVisited(Head(queue))
    /\ queue' = Tail(queue)
    /\ UNCHANGED <<pc, visited, childrenOf, parentsOf, resourceSBOMPath,
                   resultPath, remainingChildren, allNodes, processed, batch,
                   next, files, returned, failedFetch, processLog>>
    /\ UNCHANGED <<mergeVars, fetchCalls, leafCalls, convVars>>

\* convert_impl.go:79-87: GetComponentVersion fails.
DiscoverFetchFailed ==
    /\ pc = "discover"
    /\ queue # <<>>
    /\ ~alreadyVisited(Head(queue))
    /\ queue' = Tail(queue)
    /\ visited' = visited \cup {keyID(Head(queue))}
    /\ failedFetch' = failedFetch \cup {keyID(Head(queue))}
    /\ UNCHANGED <<pc, childrenOf, parentsOf, resourceSBOMPath,
                   resultPath, remainingChildren, allNodes, processed, batch,
                   next, files, returned, processLog>>
    /\ fetchCalls' = [fetchCalls EXCEPT ![Head(queue)] = @ + 1]
    /\ UNCHANGED <<mergeVars, leafCalls, convVars>>

\* convert_impl.go:104-116: the queue after the loop over the references
\* (visited already holds the current id).
enqueueReferences(q, seen, refs) ==
    q \o SelectSeq(refs, LAMBDA r : keyID(r) \notin seen)

\* convert_impl.go:79-116: the descriptor is fetched; hasLeaf says whether
\* ProcessComponent returned a path, refs are the descriptor's references.
DiscoverComponent ==
    /\ pc = "discover"
    /\ queue # <<>>
    /\ ~alreadyVisited(Head(queue))
    /\ \E refs \in SeqsUpTo(MayReference(Head(queue)), MaxRefs),
          hasLeaf \in BOOLEAN :
        LET curr == Head(queue)
            currID == keyID(curr)
            leafPath == mergedSbomPath(sbomDir(currID), curr.Name)
            childIDs == [i \in DOMAIN refs |-> keyID(refs[i])]
        IN /\ visited' = visited \cup {currID}
           /\ resourceSBOMPath' =
                IF hasLeaf THEN [resourceSBOMPath EXCEPT ![currID] = leafPath]
                ELSE resourceSBOMPath
           /\ files' = IF hasLeaf THEN (leafPath :> LeafDoc(curr)) @@ files
                       ELSE files
           /\ allNodes' = allNodes \cup {currID}
           /\ childrenOf' = [childrenOf EXCEPT ![currID] = @ \o childIDs]
           /\ parentsOf' = [c \in IDs |->
                              IF c \in Range(childIDs)
                              THEN parentsOf[c] \cup {currID}
                              ELSE parentsOf[c]]
           /\ queue' = enqueueReferences(Tail(queue), visited', refs)
    /\ UNCHANGED <<pc, resultPath, remainingChildren, processed, batch, next,
                   returned, failedFetch, processLog>>
    /\ fetchCalls' = [fetchCalls EXCEPT ![Head(queue)] = @ + 1]
    /\ leafCalls' = [leafCalls EXCEPT ![Head(queue)] = @ + 1]
    /\ UNCHANGED <<mergeVars, convVars>>

\* convert_impl.go:119-122
NothingDiscovered ==
    /\ pc = "discover"
    /\ queue = <<>>
    /\ allNodes = {}
    /\ returned' = <<>>
    /\ pc' = "done"
    /\ UNCHANGED <<queue, visited, childrenOf, parentsOf, resourceSBOMPath,
                   resultPath, remainingChildren, allNodes, processed, batch,
                   next, files, failedFetch, processLog>>
    /\ UNCHANGED <<mergeVars, fetchCalls, leafCalls, convVars>>

\* A counter that starts at zero for every node.
initialRemainingNone(nid) == 0

\* convert_impl.go:126
initialRemaining(nid) == Len(childrenOf[nid])

\* convert_impl.go:124-136: the counters and the first batch, in any
\* iteration order of the node table.
StartMerging ==
    /\ pc = "discover"
    /\ queue = <<>>
    /\ allNodes # {}
    /\ remainingChildren' =
          [n \in IDs |-> IF n \in allNodes THEN initialRemaining(n) ELSE 0]
    /\ processed' = {}
    /\ batch' \in Perms({n \in allNodes : remainingChildren'[n] = 0})
    /\ pc' = "loop"
    /\ UNCHANGED <<queue, visited, childrenOf, parentsOf, resourceSBOMPath,
                   resultPath, allNodes, next, files, returned, failedFetch,
                   processLog>>
    /\ UNCHANGED <<mergeVars, fetchCalls, leafCalls, convVars>>

\* The loop goes on whatever is left.
wavesRemainAlways == TRUE

\* convert_impl.go:138: the condition of the wave loop.
wavesRemain ==
    Cardinality(processed) < Cardinality(allNodes) /\ Len(batch) > 0

\* convert_impl.go:138-139
WaveBegin ==
    /\ pc = "loop"
    /\ wavesRemain
    /\ next' = <<>>
    /\ pc' = "wave"
    /\ UNCHANGED <<queue, visited, childrenOf, parentsOf, resourceSBOMPath,
                   resultPath, remainingChildren, allNodes, processed, batch,
                   files, returned, failedFetch, processLog>>
    /\ UNCHANGED <<mergeVars, fetchCalls, leafCalls, convVars>>

\* convert_impl.go:145-154: the node's own leaf document, then each child's
\* recorded result, in reference order.
filesToMerge(nid) ==
    (IF resourceSBOMPath[nid] # NoPath THEN <<resourceSBOMPath[nid]>> ELSE <<>>)
    \o LET recorded(cid) == IF resultPath[cid] # NoPath
                            THEN <<resultPath[cid]>> ELSE <<>>
       IN SeqSum(recorded, childrenOf[nid])

\* No parent hears of it.
notifiedNobody(nid) == remainingChildren

\* convert_impl.go:160-165 and 192-197: the counters after the node's
\* parents are notified.
notified(nid) ==
    [p \in IDs |-> IF p \in parentsOf[nid] THEN remainingChildren[p] - 1
                   ELSE remainingChildren[p]]
\* Every notified parent is taken as ready, whatever its counter says.
readiedOnAnyDecrement(nid) ==
    {p \in parentsOf[nid] : p \notin processed \cup {nid}}

\* The parents that become ready by it.
readied(nid) ==
    {p \in parentsOf[nid] : notified(nid)[p] = 0 /\ p \notin processed \cup {nid}}

\* Marks the node processed and notifies its parents, which are appended to
\* the next batch in any iteration order of the parent set.
Propagate(nid) ==
    /\ processed' = processed \cup {nid}
    /\ remainingChildren' = notified(nid)
    /\ \E order \in Perms(readied(nid)) : next' = next \o order

\* The merger is called for any input there is.
needsMergeForAny(paths) == Len(paths) > 0

\* convert_impl.go:171
needsMerge(paths) == Len(paths) > 1

\* convert_impl.go:170: finalPath := files[0]
firstInput(paths) == paths[1]

\* The last input stands in.
mergeFallbackLast(paths) == paths[Len(paths)]

\* convert_impl.go:181-183: on a failed merge finalPath keeps the first input.
mergeFallback(paths) == firstInput(paths)

\* What phase 2 did for a node: the inputs gathered, whether the merger was
\* called ("none", "ok", "failed") and with which subject, the result recorded.
logEntry(nid, paths, merge, path) ==
    [node |-> nid, inputs |-> paths, merge |-> merge,
     name |-> compNameOf(nid), version |-> compVersionOf(nid), result |-> path]

\* convert_impl.go:140-143, with the node taken off the batch.
Ready(nid) ==
    /\ pc = "wave"
    /\ batch # <<>>
    /\ nid = Head(batch)
    /\ batch' = Tail(batch)

\* convert_impl.go:141-143 and 156-167: no input, nothing to produce.
ProcessNodeNoInput ==
    \E nid \in IDs :
        /\ Ready(nid)
        /\ IF nid \in processed
           THEN UNCHANGED <<processed, remainingChildren, next, processLog>>
           ELSE /\ Len(filesToMerge(nid)) = 0
                /\ processLog' = Append(processLog,
                                        logEntry(nid, <<>>, "none", NoPath))
                /\ Propagate(nid)
        /\ UNCHANGED <<pc, queue, visited, childrenOf, parentsOf,
                       resourceSBOMPath, resultPath, allNodes, files,
                       returned, failedFetch>>
        /\ UNCHANGED <<mergeVars, fetchCalls, leafCalls, convVars>>

\* convert_impl.go:169-170 and 188-197: one input is the node's result.
ProcessNodeSingle ==
    \E nid \in IDs :
        /\ Ready(nid)
        /\ nid \notin processed
        /\ Len(filesToMerge(nid)) > 0
        /\ ~needsMerge(filesToMerge(nid))
        /\ resultPath' = [resultPath EXCEPT ![nid] = firstInput(filesToMerge(nid))]
        /\ processLog' = Append(processLog,
              logEntry(nid, filesToMerge(nid), "none", firstInput(filesToMerge(nid))))
        /\ Propagate(nid)
        /\ UNCHANGED <<pc, queue, visited, childrenOf, parentsOf,
                       resourceSBOMPath, allNodes, files, returned,
                       failedFetch>>
        /\ UNCHANGED <<mergeVars, fetchCalls, leafCalls, convVars>>

\* The documents at the paths, as the merge tool reads them.
readAll(paths) == [i \in DOMAIN paths |-> files[paths[i]]]

\* part_002:207-315 for the call of convert_impl.go:180: the merge of the
\* documents at the paths under the subject (componentName, componentVersion).
ComponentSbomMerge(dir, paths, componentName, componentVersion) ==
    LET r == CycloneDXMerge(
                 Options(readAll(paths), Empty, componentName, componentVersion))
    IN [path |-> mergedSbomPath(dir, componentName), bom |-> r.bom, err |-> r.err]

\* convert_impl.go:171-197: two or more inputs, the merge succeeds.
ProcessNodeMerge ==
    \E nid \in IDs :
        /\ Ready(nid)
        /\ nid \notin processed
        /\ needsMerge(filesToMerge(nid))
        /\ LET m == ComponentSbomMerge(TempDir, filesToMerge(nid),
                                       compNameOf(nid), compVersionOf(nid))
           IN /\ m.err = NoError
              /\ files' = (m.path :> m.bom.bom) @@ files
              /\ resultPath' = [resultPath EXCEPT ![nid] = m.path]
        /\ processLog' = Append(processLog,
              logEntry(nid, filesToMerge(nid), "ok",
                       mergedSbomPath(TempDir, compNameOf(nid))))
        /\ Propagate(nid)
        /\ UNCHANGED <<pc, queue, visited, childrenOf, parentsOf,
                       resourceSBOMPath, allNodes, returned, failedFetch>>
        /\ UNCHANGED <<mergeVars, fetchCalls, leafCalls, convVars>>

\* convert_impl.go:180-182 and 188-197: the merge tool fails, the first
\* input stands in.
ProcessNodeMergeFailed ==
    \E nid \in IDs :
        /\ Ready(nid)
        /\ nid \notin processed
        /\ needsMerge(filesToMerge(nid))
        /\ resultPath' = [resultPath EXCEPT ![nid] = mergeFallback(filesToMerge(nid))]
        /\ processLog' = Append(processLog,
              logEntry(nid, filesToMerge(nid), "failed",
                       mergeFallback(filesToMerge(nid))))
        /\ Propagate(nid)
        /\ UNCHANGED <<pc, queue, visited, childrenOf, parentsOf,
                       resourceSBOMPath, allNodes, files, returned, failedFetch>>
        /\ UNCHANGED <<mergeVars, fetchCalls, leafCalls, convVars>>

\* convert_impl.go:199
WaveEnd ==
    /\ pc = "wave"
    /\ batch = <<>>
    /\ batch' = next
    /\ pc' = "loop"
    /\ UNCHANGED <<queue, visited, childrenOf, parentsOf, resourceSBOMPath,
                   resultPath, remainingChildren, allNodes, processed, next,
                   files, returned, failedFetch, processLog>>
    /\ UNCHANGED <<mergeVars, fetchCalls, leafCalls, convVars>>

\* convert_impl.go:206-209: the paths a range over resultPath can yield.
recordedPaths == {resultPath[n] : n \in IDs} \ {NoPath}

\* convert_impl.go:203-217: the value returned once the waves are over.
rootMergedChoices ==
    IF resultPath[rootID] # NoPath THEN {<<resultPath[rootID]>>}
    ELSE IF recordedPaths # {} THEN {<<p>> : p \in recordedPaths}
    ELSE {<<>>}

Return ==
    /\ pc = "loop"
    /\ ~wavesRemain
    /\ returned' \in rootMergedChoices
    /\ pc' = "done"
    /\ UNCHANGED <<queue, visited, childrenOf, parentsOf, resourceSBOMPath,
                   resultPath, remainingChildren, allNodes, processed, batch,
                   next, files, failedFetch, processLog>>
    /\ UNCHANGED <<mergeVars, fetchCalls, leafCalls, convVars>>

-----------------------------------------------------------------------------
(* ConvertOCMToSBOM, convert_impl.go:17-39, and convertFinalSBOM, 271-309 *)

\* part_005:283-288
FormatCycloneDXJSON == <<"c", "y", "c", "l", "o", "n", "e", "d", "x", "-", "j", "s", "o", "n">>
FormatSPDXJSON == <<"s", "p", "d", "x", "-", "j", "s", "o", "n">>
FormatCycloneDXYAML == <<"c", "y", "c", "l", "o", "n", "e", "d", "x", "-", "y", "a", "m", "l">>
FormatSPDXYAML == <<"s", "p", "d", "x", "-", "y", "a", "m", "l">>
\* SBOMFormat is a string: a caller may spell a format in other letter case.
FormatMixedCase == <<"C", "y", "c", "l", "o", "n", "e", "D", "X", "-", "J", "S", "O", "N">>
Formats == {FormatCycloneDXJSON, FormatSPDXJSON, FormatCycloneDXYAML,
            FormatSPDXYAML, FormatMixedCase}

UpperCase == <<"A", "B", "C", "D", "E", "F", "G", "H", "I", "J", "K", "L", "M", "N", "O", "P", "Q", "R", "S", "T", "U", "V", "W", "X", "Y", "Z">>
LowerCase == <<"a", "b", "c", "d", "e", "f", "g", "h", "i", "j", "k", "l", "m", "n", "o", "p", "q", "r", "s", "t", "u", "v", "w", "x", "y", "z">>
\* strings.ToLower
ToLower(str) ==
    [i \in DOMAIN str |->
        IF \E k \in DOMAIN UpperCase : UpperCase[k] = str[i]
        THEN LowerCase[CHOOSE k \in DOMAIN UpperCase : UpperCase[k] = str[i]]
        ELSE str[i]]
\* strings.HasSuffix, strings.HasPrefix
HasSuffix(str, suffix) ==
    /\ Len(suffix) <= Len(str)
    /\ SubSeq(str, Len(str) - Len(suffix) + 1, Len(str)) = suffix
HasPrefix(str, prefix) ==
    /\ Len(prefix) <= Len(str)
    /\ SubSeq(str, 1, Len(prefix)) = prefix

\* convert_impl.go:273: the merged file is returned as it is.
readsDirectly(format) == ToLower(format) = FormatCycloneDXJSON

\* convert_impl.go:283-295: --output-format and --output-version.
outputFormatArg(format) ==
    IF HasSuffix(format, <<"-", "y", "a", "m", "l">>) THEN <<"y", "a", "m", "l">>
    ELSE IF HasSuffix(format, <<"-", "j", "s", "o", "n">>) THEN <<"j", "s", "o", "n">>
    ELSE format
outputVersion(format) ==
    IF HasPrefix(format, <<"s", "p", "d", "x">>) THEN <<"2", ".", "3">>
    ELSE <<"1", ".", "6">>

\* The requested format does not touch what the model keeps of
\* processAllComponents (it is handed to the scanner only), so it is drawn
\* when ConvertOCMToSBOM first looks at it.

\* convert_impl.go:28-31: nothing was returned.
ConvertNothing ==
    /\ pc = "done"
    /\ returned = <<>>
    /\ targetFormat' \in Formats
    /\ sbom' = EmptyBytes
    /\ sbomErr' = "nil"
    /\ pc' = "finished"
    /\ UNCHANGED <<queue, visited, childrenOf, parentsOf, resourceSBOMPath,
                   resultPath, remainingChildren, allNodes, processed, batch,
                   next, files, returned, failedFetch, processLog>>
    /\ UNCHANGED <<mergeVars, fetchCalls, leafCalls, convertCalls>>

\* convert_impl.go:34-38 and 273-276
ConvertReadDirectly ==
    /\ pc = "done"
    /\ returned # <<>>
    /\ \E format \in Formats :
          /\ readsDirectly(format)
          /\ targetFormat' = format
    /\ sbom' = Bytes(FormatCycloneDXJSON, files[returned[1]])
    /\ sbomErr' = "nil"
    /\ pc' = "finished"
    /\ UNCHANGED <<queue, visited, childrenOf, parentsOf, resourceSBOMPath,
                   resultPath, remainingChildren, allNodes, processed, batch,
                   next, files, returned, failedFetch, processLog>>
    /\ UNCHANGED <<mergeVars, fetchCalls, leafCalls, convertCalls>>

\* convert_impl.go:34-38 and 278-308: the convert command runs; ok says
\* whether it succeeded.  (A document exists only if the merge tool ran, so
\* the tool path checked at line 278 is set.)
ConvertFormat ==
    /\ pc = "done"
    /\ returned # <<>>
    /\ \E format \in Formats, ok \in BOOLEAN :
          /\ ~readsDirectly(format)
          /\ targetFormat' = format
          /\ sbom' = IF ok
                     THEN Bytes(outputFormatArg(format) \o At
                                   \o outputVersion(format),
                                files[returned[1]])
                     ELSE NoBytes
          /\ sbomErr' = IF ok THEN "nil" ELSE "failed to convert SBOM"
    /\ convertCalls' = convertCalls + 1
    /\ pc' = "finished"
    /\ UNCHANGED <<queue, visited, childrenOf, parentsOf, resourceSBOMPath,
                   resultPath, remainingChildren, allNodes, processed, batch,
                   next, files, returned, failedFetch, processLog>>
    /\ UNCHANGED <<mergeVars, fetchCalls, leafCalls>>

Next ==
    \/ DiscoverVisited
    \/ DiscoverFetchFailed
    \/ DiscoverComponent
    \/ NothingDiscovered
    \/ StartMerging
    \/ WaveBegin
    \/ ProcessNodeNoInput
    \/ ProcessNodeSingle
    \/ ProcessNodeMerge
    \/ ProcessNodeMergeFailed
    \/ WaveEnd
    \/ Return
    \/ ConvertNothing
    \/ ConvertReadDirectly
    \/ ConvertFormat

Spec == Init /\ [][Next]_vars

-----------------------------------------------------------------------------
(* Properties of processAllComponents *)

childSet(nid) == Range(childrenOf[nid])

RECURSIVE ReachFrom(_, _)
ReachFrom(S, k) ==
    IF k = 0 THEN S
    ELSE ReachFrom(S \cup UNION {childSet(n) : n \in S}, k - 1)

\* No node reaches itself along the references.
Acyclic ==
    \A n \in IDs : n \notin ReachFrom(childSet(n), Cardinality(IDs))

\* No descriptor lists the same component version twice.
NoRepeatedReference ==
    \A n \in IDs : Cardinality(childSet(n)) = Len(childrenOf[n])

logged(nid) == {i \in DOMAIN processLog : processLog[i].node = nid}

\* The ready nodes waiting to be drained.
pending == IF pc = "wave" THEN batch \o next
           ELSE IF pc = "loop" THEN batch ELSE <<>>

\* C1: a node is marked processed, and its inputs are gathered, only when
\* every distinct child of its references is already marked processed: each
\* processed node has all its children processed, and the children were
\* logged before it.
C1_ChildrenProcessedFirst ==
    /\ \A n \in processed : childSet(n) \subseteq processed
    /\ \A i \in DOMAIN processLog :
          \A c \in childSet(processLog[i].node) :
             \E j \in 1..(i - 1) : processLog[j].node = c

\* A node with two distinct children is processed after both in a finished run.
C1_Witness ==
    /\ pc = "done"
    /\ \E n \in processed :
          /\ Cardinality(childSet(n)) = 2
          /\ resultPath[n] # NoPath

\* C2: every node is processed at most once, the result path logged when it
\* was processed is still the one recorded, no node waits twice in the ready
\* batches or waits there after it was processed, and each parent gathered
\* for each child exactly the result recorded for that child.
C2_ProcessedOnceResultStable ==
    /\ \A n \in IDs : Cardinality(logged(n)) = (IF n \in processed THEN 1 ELSE 0)
    /\ \A i \in DOMAIN processLog :
          resultPath[processLog[i].node] = processLog[i].result
    /\ \A i, j \in DOMAIN pending : i # j => pending[i] # pending[j]
    /\ \A i \in DOMAIN pending : pending[i] \notin processed
    /\ \A i \in DOMAIN processLog :
          LET e == processLog[i]
          IN e.inputs = filesToMerge(e.node)

\* The diamond app -> lib:1.0, app -> lib:2.0, both -> b:c, processed through
\* to the root, with b:c's result recorded.
C2_Witness ==
    /\ pc = "done"
    /\ rootID \in processed
    /\ parentsOf[id(sBC, sV1)] = {id(sLib, sV1), id(sLib, sV2)}
    /\ childSet(rootID) = {id(sLib, sV1), id(sLib, sV2)}
    /\ resultPath[id(sBC, sV1)] # NoPath

\* C3: the value returned is the result recorded for the root, or nothing
\* when the root has no recorded result.
C3_ReturnsRootResultOrNothing ==
    pc = "done" =>
       returned = (IF resultPath[rootID] # NoPath
                   THEN <<resultPath[rootID]>> ELSE <<>>)

\* C4: in a graph with no cycle and no repeated reference, once the run is
\* over every parent of a node whose fetch failed has been processed, and so
\* has the root.
C4_FailedFetchParentsProcessed ==
    (pc = "done" /\ Acyclic /\ NoRepeatedReference /\ allNodes # {}) =>
       \A x \in failedFetch \ {rootID} :
          (parentsOf[x] \cup {rootID}) \subseteq processed

refsOf(components) ==
    [i \in DOMAIN components.v |-> components.v[i].BOMRef]

NoTwoEqual(s) == \A i, j \in DOMAIN s : i # j => s[i] # s[j]

\* C5: in an acyclic graph every document written by a merge of phase 2 has
\* pairwise different reference ids on its top-level components.
C5_MergedTopLevelRefsUnique ==
    Acyclic =>
       \A i \in DOMAIN processLog :
          processLog[i].merge = "ok" =>
             NoTwoEqual(refsOf(files[processLog[i].result].Components))

\* The node lies on a cycle of the references.
OnCycle(n) == n \in ReachFrom(childSet(n), Cardinality(IDs))

\* The node lies on a cycle or is an ancestor of a node that does.
ReachesCycle(n) ==
    \E m \in {n} \cup ReachFrom(childSet(n), Cardinality(IDs)) : OnCycle(m)

\* The nodes on a cycle and their ancestors are never processed: nothing is
\* logged or recorded for them and their counters stay above zero.
CycleStalls ==
    \A n \in allNodes :
       ReachesCycle(n) =>
          /\ n \notin processed
          /\ resultPath[n] = NoPath
          /\ logged(n) = {}
          /\ pc # "discover" => remainingChildren[n] > 0

\* C11: when the discovered graph has a cycle, the nodes on a cycle and
\* their ancestors are never processed, and once the run is over every
\* other discovered node has been processed.
C11_CycleStallsOnlyItsAncestors ==
    (\E n \in allNodes : OnCycle(n)) =>
       /\ CycleStalls
       /\ pc = "done" =>
             \A n \in allNodes : ~ReachesCycle(n) => n \in processed

\* C12: the value returned does not depend on any iteration order: once the
\* run is over, the value returned is the only one that the graph and the
\* recorded results allow.
C12_ReturnedValueDetermined ==
    pc = "done" => rootMergedChoices = {returned}

\* C13: no key has its descriptor fetched more than once or its leaf
\* document requested more than once.
C13_FetchedAndGeneratedOnce ==
    \A k \in KeyUniverse : fetchCalls[k] <= 1 /\ leafCalls[k] <= 1

\* b:c:1.0 was enqueued by both children of the root before it was visited,
\* in a graph with a cycle, and was fetched.
C13_Witness ==
    /\ pc = "done"
    /\ childSet(rootID) = {id(sLib, sV1), id(sLib, sV2)}
    /\ parentsOf[id(sBC, sV1)] = {id(sLib, sV1), id(sLib, sV2)}
    /\ OnCycle(id(sLib, sV2))
    /\ fetchCalls[compKey(sBC, sV1)] = 1
    /\ leafCalls[compKey(sBC, sV1)] = 1

\* C14: with a root document the converter runs once when the requested
\* format is not cyclonedx-json (in any letter case) and not at all when it
\* is, and then the root document is returned as it is; without a root
\* document the converter does not run and an empty result is returned with
\* no error.
C14_ConverterRunsOnceWhenNeeded ==
    pc = "finished" =>
       LET asked == ToLower(targetFormat) = FormatCycloneDXJSON
       IN IF resultPath[rootID] # NoPath
          THEN IF asked
               THEN /\ convertCalls = 0
                    /\ sbomErr = "nil"
                    /\ sbom = Bytes(FormatCycloneDXJSON,
                                    files[resultPath[rootID]])
               ELSE convertCalls = 1
          ELSE /\ convertCalls = 0
               /\ sbomErr = "nil"
               /\ sbom = EmptyBytes

\* C16: a node with exactly one gathered input gets that input as its
\* result without a call of the merger, and the merger is called exactly
\* for the nodes with two or more inputs.
C16_MergerCalledForTwoOrMore ==
    \A i \in DOMAIN processLog :
       LET e == processLog[i]
       IN /\ e.inputs = filesToMerge(e.node)
          /\ Len(e.inputs) = 1 =>
                (e.merge = "none" /\ resultPath[e.node] = e.inputs[1])
          /\ e.merge # "none" <=> Len(e.inputs) >= 2

\* One node passed its only child's result through and another was merged.
C16_Witness ==
    /\ \E i \in DOMAIN processLog :
          /\ Len(processLog[i].inputs) = 1
          /\ resourceSBOMPath[processLog[i].node] = NoPath
    /\ \E i \in DOMAIN processLog : processLog[i].merge = "ok"

\* The step marks nid processed.
Processes(nid) == nid \notin processed /\ nid \in processed'

\* The step decrements the counter of each parent of nid once and of no
\* other node, and every parent that reaches zero is in the next batch.
ParentsNotified(nid) ==
    /\ \A p \in IDs :
          remainingChildren'[p] =
             remainingChildren[p] - (IF p \in parentsOf[nid] THEN 1 ELSE 0)
    /\ \A p \in parentsOf[nid] :
          remainingChildren'[p] = 0 => p \in Range(next')

\* C17: a step that processes a node with no input records no result for
\* it, decrements each parent's counter once and puts the parents that
\* reach zero into the next batch.
C17_EmptyNodePropagates ==
    [][\A nid \in IDs :
          (Processes(nid) /\ filesToMerge(nid) = <<>>) =>
             (resultPath'[nid] = NoPath /\ ParentsNotified(nid))]_vars

\* A node without input was processed and a parent of it was processed
\* afterwards.
C17_Witness ==
    \E i \in DOMAIN processLog :
       /\ processLog[i].inputs = <<>>
       /\ \E j \in DOMAIN processLog :
             /\ j > i
             /\ processLog[j].node \in parentsOf[processLog[i].node]

\* The first input of a node: its leaf document, else the first recorded
\* child result in reference order.
expectedFirst(nid) ==
    IF resourceSBOMPath[nid] # NoPath THEN resourceSBOMPath[nid]
    ELSE LET cs == childrenOf[nid]
             k == CHOOSE k \in DOMAIN cs :
                     /\ resultPath[cs[k]] # NoPath
                     /\ \A j \in 1..(k - 1) : resultPath[cs[j]] = NoPath
         IN resultPath[cs[k]]

\* C18: a step in which the merger fails for a node records the node's first
\* input as its result, marks the node processed, notifies its parents and
\* goes on with the rest of the batch.
C18_FailedMergeFallsBack ==
    [][\A nid \in IDs :
          (/\ Processes(nid)
           /\ Len(processLog') = Len(processLog) + 1
           /\ processLog'[Len(processLog')].merge = "failed") =>
             /\ Len(filesToMerge(nid)) >= 2
             /\ resultPath'[nid] = expectedFirst(nid)
             /\ ParentsNotified(nid)
             /\ pc' = "wave"
             /\ batch' = Tail(batch)]_vars

\* The merger failed for a node below the root and the root was processed.
C18_Witness ==
    /\ rootID \in processed
    /\ \E i \in DOMAIN processLog :
          /\ processLog[i].merge = "failed"
          /\ processLog[i].node # rootID
          /\ resultPath[processLog[i].node] = processLog[i].inputs[1]

\* The key a node was discovered under.
keyOf(nid) == CHOOSE k \in KeyUniverse : keyID(k) = nid

\* C19: every call of the merger names the node's component name and
\* version as discovered.
C19_SubjectIsTheNodesKey ==
    \A i \in DOMAIN processLog :
       processLog[i].merge # "none" =>
          /\ processLog[i].name = keyOf(processLog[i].node).Name
          /\ processLog[i].version = keyOf(processLog[i].node).Version

\* C26: when the run over an acyclic graph with no failed fetch is over,
\* every discovered node has been processed, once, and the root has a result
\* if any node has a leaf document.
C26_AcyclicGraphFullyProcessed ==
    (pc = "done" /\ Acyclic /\ failedFetch = {} /\ allNodes # {}) =>
       /\ processed = allNodes
       /\ \A n \in allNodes : Cardinality(logged(n)) = 1
       /\ (\E n \in allNodes : resourceSBOMPath[n] # NoPath) =>
             resultPath[rootID] # NoPath

\* C27: two different nodes for which the merger wrote a document have
\* different result paths.
C27_MergedPathsDistinct ==
    \A i, j \in DOMAIN processLog :
       (/\ i # j
        /\ processLog[i].merge = "ok"
        /\ processLog[j].merge = "ok") =>
          processLog[i].result # processLog[j].result

\* The keys not visited yet and the discovered nodes not processed yet.
unvisited == Cardinality({k \in KeyUniverse : keyID(k) \notin visited})
unprocessed == Cardinality(allNodes \ processed)

\* More than the ready batches can ever weigh.
Weight == 10 * Cardinality(IDs) + 10

\* A natural number that measures the work left in a run: in the discovery
\* the queue and what the keys not visited yet may still add to it; in the
\* merge loop the nodes not processed yet, then the ready batches.
measure ==
    CASE pc = "discover" ->
            Weight * (Cardinality(IDs) + 1)
            + Len(queue) + (MaxRefs + 1) * unvisited
      [] pc = "loop" -> Weight * unprocessed + 4 * Len(batch) + 1
      [] pc = "wave" -> Weight * unprocessed + 2 * Len(batch) + 6 * Len(next) + 2
      [] OTHER -> 0

\* C28: every run of processAllComponents comes to its end: each of its
\* steps lessens the work left; the discovery ends with the queue empty and
\* every enqueued key visited, and at no time have more processing steps been
\* taken than nodes were discovered.
C28_Terminates ==
    [][pc \notin {"done", "finished"} =>
          /\ measure' < measure
          /\ pc' # "discover" => (queue' = <<>> /\ allNodes' \subseteq visited')
          /\ Len(processLog') <= Cardinality(allNodes')]_vars

\* A run over a graph with a cycle, in which a merge failed, has ended.
C28_Witness ==
    /\ pc = "done"
    /\ ~Acyclic
    /\ \E n \in IDs : n \in childSet(n)
    /\ \E i \in DOMAIN processLog : processLog[i].merge = "failed"

-----------------------------------------------------------------------------
(* Properties of CycloneDXMerge and HierarchicalMerge *)

merged == pc = "merged" /\ outErr = NoError

RECURSIVE treeRefs(_)
treeRefs(component) ==
    <<component.BOMRef>> \o SeqSum(treeRefs, component.Components)

present(s) == SelectSeq(s, LAMBDA r : r # Empty)

\* The component reference ids of an input document, the root's first.
documentRefs(bom) ==
    treeRefs([bom.Metadata.Component EXCEPT
                 !.Components = @ \o bom.Components.v])

identity(bom) ==
    <<bom.Metadata.Component.Group, bom.Metadata.Component.Name,
      bom.Metadata.Component.Version>>

\* The reference ids that the i-th document brought into the result.
originating(i) ==
    Range(present(treeRefs(outBom.bom.Components.v[i])))

\* C6: when the documents' root components differ pairwise in (group, name,
\* version) and the reference ids of each document are unique within it, no
\* reference id that one document brought into the result equals one that
\* another document brought.
C6_NamespacedRefsUniqueAcrossDocuments ==
    (/\ merged
     /\ \A i, j \in DOMAIN options.BOMs :
           i # j => identity(options.BOMs[i]) # identity(options.BOMs[j])
     /\ \A i \in DOMAIN options.BOMs :
           NoTwoEqual(present(documentRefs(options.BOMs[i]))))
    => \A i, j \in DOMAIN options.BOMs :
          i # j => originating(i) \cap originating(j) = {}

expectedNamespace(c) ==
    IF c.Group # Empty THEN c.Group \o Dot \o c.Name \o At \o c.Version
    ELSE c.Name \o At \o c.Version

expectedRef(c, ref) ==
    IF ref = Empty THEN Empty ELSE expectedNamespace(c) \o Colon \o ref

expectedRootRef(bom) ==
    IF bom.Metadata.Component.BOMRef = Empty
    THEN expectedNamespace(bom.Metadata.Component)
    ELSE expectedRef(bom.Metadata.Component, bom.Metadata.Component.BOMRef)

expectedDependencyRefs(bom) ==
    [k \in DOMAIN bom.Dependencies.v |->
        expectedRef(bom.Metadata.Component, bom.Dependencies.v[k].Ref)]

\* C7: the dependency list of the result is the documents' entries in
\* document order followed by one last entry, whose ref is the subject's
\* reference id and whose depends-on list is present and holds the namespaced
\* root reference of each document, in input order.
C7_FinalDependencyClosesTheList ==
    merged =>
       LET deps == outBom.bom.Dependencies
           last == deps.v[Len(deps.v)]
       IN /\ ~deps.nil
          /\ [k \in DOMAIN deps.v |-> deps.v[k].Ref]
                = SeqSum(expectedDependencyRefs, options.BOMs)
                  \o <<expectedNamespace(subjectOf(options))>>
          /\ ~last.Dependencies.nil
          /\ last.Dependencies.v
                = [i \in DOMAIN options.BOMs |->
                      expectedRootRef(options.BOMs[i])]

\* Two documents with different roots are merged, one with dependency
\* entries of its own.
C7_Witness ==
    /\ merged
    /\ Len(options.BOMs) = 2
    /\ expectedRootRef(options.BOMs[1]) # expectedRootRef(options.BOMs[2])
    /\ Len(options.BOMs[1].Dependencies.v) > 0
    /\ Len(outBom.bom.Dependencies.v) > 1

absentOrFilled(list) == list.nil \/ Len(list.v) > 0

\* C8: in the returned document every top-level collection is absent or
\* non-empty.
C8_NoEmptyCollectionPresent ==
    merged =>
       LET b == outBom.bom
       IN /\ absentOrFilled(b.Components)
          /\ absentOrFilled(b.Services)
          /\ absentOrFilled(b.ExternalReferences)
          /\ absentOrFilled(b.Dependencies)
          /\ absentOrFilled(b.Compositions)
          /\ absentOrFilled(b.Vulnerabilities)
          /\ b.Metadata.Tools.nil
                \/ (/\ absentOrFilled(b.Metadata.Tools.Components)
                    /\ absentOrFilled(b.Metadata.Tools.Services))
          /\ b.Declarations.nil
                \/ (/\ absentOrFilled(b.Declarations.Assessors)
                    /\ absentOrFilled(b.Declarations.Attestations)
                    /\ absentOrFilled(b.Declarations.Claims)
                    /\ absentOrFilled(b.Declarations.Evidence)
                    /\ b.Declarations.Targets.nil
                          \/ (/\ absentOrFilled(b.Declarations.Targets.Components)
                              /\ absentOrFilled(b.Declarations.Targets.Organizations)
                              /\ absentOrFilled(b.Declarations.Targets.Services)))
          /\ b.Definitions.nil \/ absentOrFilled(b.Definitions.Standards)

\* C9: when the subject's name or version is empty the call ends with the
\* error and no document, no input document was visited and the input
\* documents are as they were passed.
C9_MissingSubjectRejected ==
    (pc = "merged" /\ (options.Name = Empty \/ options.Version = Empty)) =>
       /\ outErr = ErrMissingSubject
       /\ outBom = NilBOM
       /\ idx = 0
       /\ boms = options.BOMs

\* A subject with a name and no version, over two documents.
C9_Witness ==
    /\ pc = "merged"
    /\ options.Name # Empty
    /\ options.Version = Empty
    /\ Len(options.BOMs) = 2
    /\ outErr = ErrMissingSubject

lacksRoot(bom) == bom.Metadata.nil \/ bom.Metadata.Component.nil

\* C10: when some input document lacks its metadata or metadata component,
\* the merge ends at the first such document with no document returned and
\* ErrMissingMetadataComponent naming that document's serial number, or
\* "unknown" when it has none; the documents after it are not visited.
C10_MissingMetadataComponentAborts ==
    (/\ pc = "merged"
     /\ options.Name # Empty
     /\ options.Version # Empty
     /\ \E i \in DOMAIN options.BOMs : lacksRoot(options.BOMs[i])) =>
       LET first == CHOOSE i \in DOMAIN options.BOMs :
                       /\ lacksRoot(options.BOMs[i])
                       /\ \A j \in 1..(i - 1) : ~lacksRoot(options.BOMs[j])
           serial == options.BOMs[first].SerialNumber
       IN /\ outBom = NilBOM
          /\ outErr.is = "ErrMissingMetadataComponent"
          /\ outErr.detail = (IF serial = Empty THEN Unknown ELSE serial)
          /\ idx = first

\* A valid document precedes one without a metadata component that has a
\* serial number.
C10_Witness ==
    /\ pc = "merged"
    /\ Len(options.BOMs) = 2
    /\ ~lacksRoot(options.BOMs[1])
    /\ lacksRoot(options.BOMs[2])
    /\ options.BOMs[2].SerialNumber # Empty
    /\ outErr = ErrMissingMetadataComponent(options.BOMs[2].SerialNumber)

sLib1 == sLib \o At \o sV1
sLib2 == sLib \o At \o sV2
sApp1 == sApp \o At \o sV1

\* Two documents rooted at lib 1.0 and lib 2.0 (no group) were merged under
\* the subject app 1.0.
twoLibsUnderApp ==
    /\ merged
    /\ options.Group = Empty /\ options.Name = sApp /\ options.Version = sV1
    /\ Len(options.BOMs) = 2
    /\ identity(options.BOMs[1]) = <<Empty, sLib, sV1>>
    /\ identity(options.BOMs[2]) = <<Empty, sLib, sV2>>

hasDependency(ref, dependsOn) ==
    \E k \in DOMAIN outBom.bom.Dependencies.v :
       /\ outBom.bom.Dependencies.v[k].Ref = ref
       /\ outBom.bom.Dependencies.v[k].Dependencies = List(dependsOn)

\* C15 as stated: the dependency list holds app@1.0 -> [lib@1.0, lib@2.0] and
\* the two top-level components have reference ids that start with
\* 'lib@1.0:' and 'lib@2.0:'.
C15_AsStated ==
    twoLibsUnderApp =>
       /\ hasDependency(sApp1, <<sLib1, sLib2>>)
       /\ Len(outBom.bom.Components.v) = 2
       /\ HasPrefix(outBom.bom.Components.v[1].BOMRef, sLib1 \o Colon)
       /\ HasPrefix(outBom.bom.Components.v[2].BOMRef, sLib2 \o Colon)

\* C15 amended: there are exactly two top-level components, the i-th with
\* the reference id 'lib@<version>:' followed by the root's own id, or the
\* bare 'lib@<version>' when the root has no id, and the dependency list
\* holds app@1.0 -> [those two reference ids].
C15_DependsOnTopLevelRefs ==
    twoLibsUnderApp =>
       LET top == outBom.bom.Components.v
           own(i) == options.BOMs[i].Metadata.Component.BOMRef
           spaced(ns, i) == IF own(i) = Empty THEN ns ELSE ns \o Colon \o own(i)
       IN /\ Len(top) = 2
          /\ top[1].BOMRef = spaced(sLib1, 1)
          /\ top[2].BOMRef = spaced(sLib2, 2)
          /\ hasDependency(sApp1, <<top[1].BOMRef, top[2].BOMRef>>)

\* Both roots carry the reference id 'r'.
C15_Witness ==
    /\ twoLibsUnderApp
    /\ options.BOMs[1].Metadata.Component.BOMRef = sR
    /\ options.BOMs[2].Metadata.Component.BOMRef = sR
    /\ outBom.bom.Components.v[1].BOMRef = sLib1 \o Colon \o sR

\* The reference ids the documents' component trees are to have in the
\* result, the root's first.
expectedTreeRefs(bom) ==
    [k \in DOMAIN documentRefs(bom) |->
        IF k = 1 THEN expectedRootRef(bom)
        ELSE expectedRef(bom.Metadata.Component, documentRefs(bom)[k])]

expectedServiceRefs(bom) ==
    [k \in DOMAIN bom.Services.v |->
        expectedRef(bom.Metadata.Component, bom.Services.v[k].BOMRef)]

expectedAll(c, refs) == [j \in DOMAIN refs |-> expectedRef(c, refs[j])]

expectedDependsOn(bom) ==
    [k \in DOMAIN bom.Dependencies.v |->
        expectedAll(bom.Metadata.Component,
                    bom.Dependencies.v[k].Dependencies.v)]

expectedCompositions(bom) ==
    [k \in DOMAIN bom.Compositions.v |->
        <<expectedAll(bom.Metadata.Component, bom.Compositions.v[k].Assemblies),
          expectedAll(bom.Metadata.Component,
                      bom.Compositions.v[k].Dependencies)>>]

\* C20: in the result every non-empty reference id of a document (of its
\* root, of the nested and the absorbed components, of its services, of its
\* dependency refs and depends-on entries, of its composition assemblies and
\* dependencies) is the document's namespace, ':' and the original id: the
\* namespace of the document's root, once, whatever component carries the id.
C20_DocumentNamespaceOnce ==
    merged =>
       LET res == outBom.bom
           own == SubSeq(res.Dependencies.v, 1, Len(res.Dependencies.v) - 1)
       IN /\ Len(res.Components.v) = Len(options.BOMs)
          /\ \A i \in DOMAIN options.BOMs :
                treeRefs(res.Components.v[i]) = expectedTreeRefs(options.BOMs[i])
          /\ [k \in DOMAIN res.Services.v |-> res.Services.v[k].BOMRef]
                = SeqSum(expectedServiceRefs, options.BOMs)
          /\ [k \in DOMAIN own |-> own[k].Ref]
                = SeqSum(expectedDependencyRefs, options.BOMs)
          /\ [k \in DOMAIN own |-> own[k].Dependencies.v]
                = SeqSum(expectedDependsOn, options.BOMs)
          /\ [k \in DOMAIN res.Compositions.v |->
                <<res.Compositions.v[k].Assemblies,
                  res.Compositions.v[k].Dependencies>>]
                = SeqSum(expectedCompositions, options.BOMs)

\* Two documents with different roots are merged; one has nested and
\* absorbed components, a service, dependencies and a composition.
C20_Witness ==
    /\ merged
    /\ Len(options.BOMs) = 2
    /\ identity(options.BOMs[1]) # identity(options.BOMs[2])
    /\ \E i \in DOMAIN options.BOMs :
          LET d == options.BOMs[i]
          IN /\ Len(documentRefs(d)) > 3
             /\ \E c \in Range(d.Metadata.Component.Components) :
                   c.Components # <<>>
             /\ d.Services.v # <<>>
             /\ \E k \in DOMAIN d.Dependencies.v :
                   d.Dependencies.v[k].Dependencies.v # <<>>
             /\ d.Compositions.v # <<>>

refsOfItems(items) == [k \in DOMAIN items |-> items[k].BOMRef]

\* The declaration targets of a document, by kind.
targetsOf(bom, kind) ==
    IF bom.Declarations.nil \/ bom.Declarations.Targets.nil THEN <<>>
    ELSE bom.Declarations.Targets[kind].v

expectedTargetRefs(bom, kind) ==
    expectedAll(bom.Metadata.Component, refsOfItems(targetsOf(bom, kind)))

\* C21: every declaration target of the result (organization, component,
\* service) carries the namespace of the document it came from, once.
C21_TargetsPrefixedOnce ==
    merged =>
       \A kind \in {"Organizations", "Components", "Services"} :
          refsOfItems(outBom.bom.Declarations.Targets[kind].v)
             = SeqSum(LAMBDA b : expectedTargetRefs(b, kind), options.BOMs)

expectedVulnerabilityRefs(bom) ==
    expectedAll(bom.Metadata.Component, refsOfItems(bom.Vulnerabilities.v))

\* C22: the reference id of each vulnerability of the result is the
\* namespace of the document it came from, ':' and its original id.
C22_VulnerabilityRefsUseDocumentNamespace ==
    merged =>
       refsOfItems(outBom.bom.Vulnerabilities.v)
          = SeqSum(expectedVulnerabilityRefs, options.BOMs)

\* The vulnerabilities of the input documents, in document order.
declaredVulnerabilities == SeqSum(LAMBDA b : b.Vulnerabilities.v, options.BOMs)

\* The namespaces at hand in a merge: the subject's and the documents'.
namespacesAtHand ==
    {expectedNamespace(subjectOf(options))}
    \cup {expectedNamespace(options.BOMs[i].Metadata.Component) :
             i \in DOMAIN options.BOMs}

\* C23: every affects entry of a vulnerability of the result carries the bare
\* namespace that prefixes the vulnerability's own reference id, whatever the
\* entry's original target was.
C23_AffectsCollapseToNamespace ==
    merged =>
       LET vs == outBom.bom.Vulnerabilities.v
       IN /\ Len(vs) = Len(declaredVulnerabilities)
          /\ \A k \in DOMAIN vs :
                \E ns \in namespacesAtHand :
                   /\ vs[k].BOMRef =
                         IF declaredVulnerabilities[k].BOMRef = Empty THEN Empty
                         ELSE ns \o Colon \o declaredVulnerabilities[k].BOMRef
                   /\ Len(vs[k].Affects) = Len(declaredVulnerabilities[k].Affects)
                   /\ \A j \in DOMAIN vs[k].Affects : vs[k].Affects[j].Ref = ns

\* A vulnerability with two affects entries of different targets was merged.
C23_Witness ==
    /\ merged
    /\ \E k \in DOMAIN declaredVulnerabilities :
          /\ declaredVulnerabilities[k].BOMRef # Empty
          /\ \E i, j \in DOMAIN declaredVulnerabilities[k].Affects :
                declaredVulnerabilities[k].Affects[i].Ref
                   # declaredVulnerabilities[k].Affects[j].Ref
          /\ Len(outBom.bom.Vulnerabilities.v[k].Affects) >= 2

\* The entries of a list without those whose value came earlier.
firstSeen(refs) ==
    SelectSeq([k \in DOMAIN refs |->
                  <<refs[k], \A j \in 1..(k - 1) : refs[j] # refs[k]>>],
              LAMBDA e : e[2])

toolComponentsOf(bom) ==
    IF bom.Metadata.Tools.nil THEN <<>> ELSE bom.Metadata.Tools.Components.v

toolServicesOf(bom) ==
    IF bom.Metadata.Tools.nil THEN <<>> ELSE bom.Metadata.Tools.Services.v

\* C24: the tool components and the tool services of the result are the
\* tools the documents declare, each reference id once, in the order first
\* seen, the ids as declared.
C24_ToolsUnionFirstSeen ==
    merged =>
       /\ NoTwoEqual(refsOfItems(outBom.bom.Metadata.Tools.Components.v))
       /\ NoTwoEqual(refsOfItems(outBom.bom.Metadata.Tools.Services.v))
       /\ refsOfItems(outBom.bom.Metadata.Tools.Components.v)
             = [k \in DOMAIN firstSeen(refsOfItems(
                                 SeqSum(toolComponentsOf, options.BOMs))) |->
                   firstSeen(refsOfItems(
                       SeqSum(toolComponentsOf, options.BOMs)))[k][1]]
       /\ refsOfItems(outBom.bom.Metadata.Tools.Services.v)
             = [k \in DOMAIN firstSeen(refsOfItems(
                                 SeqSum(toolServicesOf, options.BOMs))) |->
                   firstSeen(refsOfItems(
                       SeqSum(toolServicesOf, options.BOMs)))[k][1]]

\* The mitigation-strategy references of the attestation map entries of a
\* list of attestations, entry by entry.
strategiesOf(attestations) ==
    SeqSum(LAMBDA a :
              [j \in DOMAIN a.Map.v |->
                  IF a.Map.v[j].Conformance.nil THEN <<>>
                  ELSE a.Map.v[j].Conformance.MitigationStrategies.v],
           attestations)

expectedStrategies(bom) ==
    [k \in DOMAIN strategiesOf(bom.Declarations.Attestations.v) |->
        expectedAll(bom.Metadata.Component,
                    strategiesOf(bom.Declarations.Attestations.v)[k])]

\* C25: the mitigation-strategy references of every attestation map entry
\* are rewritten to the document's namespace, ':' and the original reference.
C25_MitigationStrategiesRewritten ==
    merged =>
       strategiesOf(outBom.bom.Declarations.Attestations.v)
          = SeqSum(expectedStrategies, options.BOMs)

refsOfDeps(dependencies) == [k \in DOMAIN dependencies |-> dependencies[k].Ref]

\* The references a document makes to components: dependency refs,
\* depends-on entries, composition assemblies and dependencies.
crossRefs(bom) ==
    Range(refsOfDeps(bom.Dependencies.v))
    \cup UNION {Range(bom.Dependencies.v[k].Dependencies.v) :
                   k \in DOMAIN bom.Dependencies.v}
    \cup UNION {Range(bom.Compositions.v[k].Assemblies)
                \cup Range(bom.Compositions.v[k].Dependencies) :
                   k \in DOMAIN bom.Compositions.v}

\* Every reference of the document is the reference id of its root or of one
\* of its components, nested or not.
intact(bom) ==
    crossRefs(bom) \subseteq Range(present(documentRefs(bom)))

\* The reference ids of the result: the subject's and those of its component
\* tree.
resultRefs ==
    {outBom.bom.Metadata.Component.BOMRef}
    \cup UNION {Range(treeRefs(outBom.bom.Components.v[i])) :
                   i \in DOMAIN outBom.bom.Components.v}

\* C29: when every dependency ref, depends-on entry and composition reference
\* of every input document is the reference id of that document's root or of
\* one of its components, every such reference of the result is the
\* reference id of the subject or of a component of the result's tree.
C29_ReferentialIntegrityPreserved ==
    (merged /\ \A i \in DOMAIN options.BOMs : intact(options.BOMs[i]))
    => crossRefs(outBom.bom) \subseteq resultRefs

\* Two documents were merged, one of them with dependencies, depends-on
\* entries and compositions that name its root and its nested components.
C29_Witness ==
    /\ merged
    /\ Len(options.BOMs) = 2
    /\ \A i \in DOMAIN options.BOMs : intact(options.BOMs[i])
    /\ \E i \in DOMAIN options.BOMs :
          /\ options.BOMs[i].Metadata.Component.BOMRef
                \in crossRefs(options.BOMs[i])
          /\ Cardinality(crossRefs(options.BOMs[i])) >= 4
          /\ options.BOMs[i].Compositions.v # <<>>

\* C30: the subject's reference id differs from the reference id of every
\* top-level component of the result, and the last dependency entry does not
\* list its own ref.
C30_SubjectRefDiffersFromTopLevel ==
    merged =>
       LET res == outBom.bom
           last == res.Dependencies.v[Len(res.Dependencies.v)]
       IN /\ \A i \in DOMAIN res.Components.v :
                res.Components.v[i].BOMRef # res.Metadata.Component.BOMRef
          /\ last.Ref \notin Range(last.Dependencies.v)

=============================================================================
